---- MODULE Spec2Model ----
(***************************************************************************)
(* A model of cirq_google's XmonDevice (devices/xmon_device.py): the grid  *)
(* topology, the gate allowlist, the per-operation validator, the          *)
(* interaction-exclusion rule of a moment, the placement decision and the  *)
(* measurement-key scan of a circuit.                                      *)
(*                                                                         *)
(* Three specifications share the variables:                               *)
(*   SpecOp      calls of the pure queries and of validate_operation on a  *)
(*               device whose topology is any subset of a small grid;      *)
(*   Spec        a moment under construction on a rectangular device, with *)
(*               validate_moment and can_add_operation_into_moment;        *)
(*   SpecCircuit the loop of _verify_unique_measurement_keys, one          *)
(*               iteration per step.                                       *)
(***************************************************************************)
EXTENDS Integers, Sequences, FiniteSets, TLC

VARIABLES
    qubits,     \* XmonDevice.qubits: the frozenset of GridQubits
    durations,  \* _measurement_duration, _exp_w_duration, _exp_z_duration
    moment,     \* the operations of the moment under construction
    guarded,    \* TRUE while every insertion into moment followed a True can_add
    call,       \* the last call made on the device: name, arguments, outcome
    circuit,    \* the circuit handed to validate_circuit: moments of operations
    idx,        \* how many operations of all_operations() the scan has consumed
    seen,       \* the local `seen` of _verify_unique_measurement_keys
    status      \* "scanning", "ok", or the error the scan raised

vars == <<qubits, durations, moment, guarded, call, circuit, idx, seen, status>>

----------------------------------------------------------------------------
(* Bounds *)

\* SpecOp: topologies are the subsets of rows 0..MaxRow, columns 0..MaxCol
MaxRow == 1
MaxCol == 1
\* Spec: the device is the full Height x Width rectangle
Height == 2
Width  == 3
\* Spec: the largest moment built
MaxOps == 2
\* SpecCircuit: the longest circuit, the largest moment of a circuit
MaxMoments == 2

----------------------------------------------------------------------------
(* Values *)

Abs(x) == IF x < 0 THEN -x ELSE x

\* cirq.GridQubit(row, col); `grid` is what isinstance(q, cirq.GridQubit) reads
GridQubit(r, c) == [grid |-> TRUE, row |-> r, col |-> c]

Q(r, c) == GridQubit(r, c)

\* a qubit that is not a GridQubit (a cirq.LineQubit)
LineQubit == [grid |-> FALSE, row |-> 0, col |-> 0]

\* GridQubit.is_adjacent: Manhattan distance exactly 1
is_adjacent(p, q) == Abs(p.row - q.row) + Abs(p.col - q.col) = 1

\* The gate classes the device tests with isinstance, two it does not know,
\* and "None": the gate of an operation that is no GateOperation.
SupportedGates ==
    {"CZPowGate", "XPowGate", "YPowGate", "PhasedXPowGate", "MeasurementGate", "ZPowGate"}
UnsupportedGates == {"ISwapPowGate", "HPowGate"}
AllGates == SupportedGates \cup UnsupportedGates \cup {"None"}

\* A cirq.Operation: isGate is isinstance(op, cirq.GateOperation), gate is
\* op.gate ("None" when it has none), key its measurement key ("" when none).
\* A TaggedOperation is no GateOperation and still has its sub-operation's gate.
Op(isg, g, qs, k) == [isGate |-> isg, gate |-> g, qubits |-> qs, key |-> k]

GateOp(g, qs) == Op(TRUE, g, qs, IF g = "MeasurementGate" THEN "m" ELSE "")

NoOp == Op(FALSE, "None", <<>>, "")
NoQubit == GridQubit(-1, -1)

QubitsOf(op) == {op.qubits[i] : i \in DOMAIN op.qubits}

----------------------------------------------------------------------------
(* XmonDevice: queries and the operation validator *)

\* XmonDevice.neighbors_of: the four candidates in the listed order, filtered
possibles(q) ==
    << GridQubit(q.row + 1, q.col),
       GridQubit(q.row - 1, q.col),
       GridQubit(q.row, q.col + 1),
       GridQubit(q.row, q.col - 1) >>

InDevice(e) == e \in qubits

neighbors_of_swapped(q) ==
    LET p == possibles(q) IN SelectSeq(<<p[1], p[3], p[2], p[4]>>, InDevice)

neighbors_of(q) == SelectSeq(possibles(q), InDevice)

\* The outcome of a call: err is "" when it returned, else the ValueError raised
Returned(v) == [err |-> "", val |-> v]
Raised(e) == [err |-> e, val |-> 0]

duration_of_no_z(op) ==
    IF op.gate = "CZPowGate" THEN Returned(durations.exp_z)
    ELSE IF op.gate = "MeasurementGate" THEN Returned(durations.measurement)
    ELSE IF op.gate \in {"XPowGate", "YPowGate", "PhasedXPowGate"}
        THEN Returned(durations.exp_w)
    ELSE Raised("Unsupported gate type")

\* XmonDevice.duration_of
duration_of(op) ==
    IF op.gate = "CZPowGate" THEN Returned(durations.exp_z)
    ELSE IF op.gate = "MeasurementGate" THEN Returned(durations.measurement)
    ELSE IF op.gate \in {"XPowGate", "YPowGate", "PhasedXPowGate"}
        THEN Returned(durations.exp_w)
    ELSE IF op.gate = "ZPowGate" THEN Returned(0)
    ELSE Raised("Unsupported gate type")

\* XmonDevice.is_supported_gate
is_supported_gate(gate) ==
    gate \in {"CZPowGate", "XPowGate", "YPowGate", "PhasedXPowGate",
              "MeasurementGate", "ZPowGate"}

\* XmonDevice.validate_gate
validate_gate(gate) ==
    IF ~is_supported_gate(gate) THEN Raised("Unsupported gate type") ELSE Returned(0)

\* the loop over operation.qubits of validate_operation, from position i on
RECURSIVE validate_qubits(_, _)
validate_qubits(qs, i) ==
    IF i > Len(qs) THEN Returned(0)
    ELSE IF ~qs[i].grid THEN Raised("Unsupported qubit type")
    ELSE IF qs[i] \notin qubits THEN Raised("Qubit not on device")
    ELSE validate_qubits(qs, i + 1)

validate_locality(op) ==
    IF Len(op.qubits) = 2 /\ op.gate # "MeasurementGate"
       /\ ~is_adjacent(op.qubits[1], op.qubits[2])
    THEN Raised("Non-local interaction")
    ELSE Returned(0)

\* a validator that tests the sites before the gate
validate_operation_sites_first(op) ==
    IF ~op.isGate THEN Raised("Unsupported operation")
    ELSE IF validate_qubits(op.qubits, 1).err # "" THEN validate_qubits(op.qubits, 1)
    ELSE IF validate_gate(op.gate).err # "" THEN validate_gate(op.gate)
    ELSE validate_locality(op)

\* a validator that holds measurements to the adjacency rule too
validate_operation_no_exemption(op) ==
    IF ~op.isGate THEN Raised("Unsupported operation")
    ELSE IF validate_gate(op.gate).err # "" THEN validate_gate(op.gate)
    ELSE IF validate_qubits(op.qubits, 1).err # "" THEN validate_qubits(op.qubits, 1)
    ELSE IF Len(op.qubits) = 2 /\ ~is_adjacent(op.qubits[1], op.qubits[2])
        THEN Raised("Non-local interaction")
    ELSE Returned(0)

\* XmonDevice.validate_operation
validate_operation(op) ==
    IF ~op.isGate THEN Raised("Unsupported operation")
    ELSE IF validate_gate(op.gate).err # "" THEN validate_gate(op.gate)
    ELSE IF validate_qubits(op.qubits, 1).err # "" THEN validate_qubits(op.qubits, 1)
    ELSE validate_locality(op)

----------------------------------------------------------------------------
(* XmonDevice: the interaction-exclusion rule and the placement decision *)

\* the kind test with CZPowGate among the gates that never interact
check_if_exp11_operation_interacts_cz_excluded(exp11_op, other_op) ==
    IF other_op.gate \in {"CZPowGate", "XPowGate", "YPowGate", "PhasedXPowGate",
                          "MeasurementGate", "ZPowGate"}
    THEN FALSE
    ELSE \E i \in DOMAIN exp11_op.qubits, j \in DOMAIN other_op.qubits :
            is_adjacent(exp11_op.qubits[i], other_op.qubits[j])

\* the kind test without ZPowGate
check_if_exp11_operation_interacts_no_z(exp11_op, other_op) ==
    IF other_op.gate \in {"XPowGate", "YPowGate", "PhasedXPowGate", "MeasurementGate"}
    THEN FALSE
    ELSE \E i \in DOMAIN exp11_op.qubits, j \in DOMAIN other_op.qubits :
            is_adjacent(exp11_op.qubits[i], other_op.qubits[j])

\* the adjacency test without the kind test before it
check_if_exp11_operation_interacts_no_kind_test(exp11_op, other_op) ==
    \E i \in DOMAIN exp11_op.qubits, j \in DOMAIN other_op.qubits :
        is_adjacent(exp11_op.qubits[i], other_op.qubits[j])

\* XmonDevice._check_if_exp11_operation_interacts
check_if_exp11_operation_interacts(exp11_op, other_op) ==
    IF other_op.gate \in {"XPowGate", "YPowGate", "PhasedXPowGate",
                          "MeasurementGate", "ZPowGate"}
    THEN FALSE
    ELSE \E i \in DOMAIN exp11_op.qubits, j \in DOMAIN other_op.qubits :
            is_adjacent(exp11_op.qubits[i], other_op.qubits[j])

\* XmonDevice._check_if_exp11_operation_interacts_with_any
check_if_exp11_operation_interacts_with_any(exp11_op, others) ==
    \E op \in others : check_if_exp11_operation_interacts(exp11_op, op)

\* cirq.Device.validate_moment, the generic check of the host framework:
\* no two operations of the moment share a qubit
Device_validate_moment(m) ==
    IF \E a, b \in m : a # b /\ QubitsOf(a) \cap QubitsOf(b) # {}
    THEN Raised("Overlapping operations")
    ELSE Returned(0)

\* XmonDevice.validate_moment. moment.operations is a tuple of operations on
\* disjoint qubits, so `other is not op` is `other # op` on the set of them.
validate_moment(m) ==
    IF Device_validate_moment(m).err # "" THEN Device_validate_moment(m)
    ELSE IF \E op \in m :
               /\ op.gate = "CZPowGate"
               /\ \E other \in m :
                      other # op /\ check_if_exp11_operation_interacts(op, other)
        THEN Raised("Adjacent Exp11 operations")
    ELSE Returned(0)

\* cirq.Device.can_add_operation_into_moment, the generic no-overlap check
Device_can_add_operation_into_moment(operation, m) ==
    \A op \in m : QubitsOf(op) \cap QubitsOf(operation) = {}

\* a placement decision that does not validate the moment first
can_add_operation_into_moment_unvalidated(operation, m) ==
    IF ~Device_can_add_operation_into_moment(operation, m) THEN Returned(FALSE)
    ELSE IF operation.gate = "CZPowGate"
        THEN Returned(~check_if_exp11_operation_interacts_with_any(operation, m))
    ELSE Returned(TRUE)

\* a placement decision that stops at the generic no-overlap check
can_add_operation_into_moment_overlap_only(operation, m) ==
    IF validate_moment(m).err # "" THEN validate_moment(m)
    ELSE IF ~Device_can_add_operation_into_moment(operation, m) THEN Returned(FALSE)
    ELSE Returned(TRUE)

\* XmonDevice.can_add_operation_into_moment: the error of validate_moment
\* propagates to the caller
can_add_operation_into_moment(operation, m) ==
    IF validate_moment(m).err # "" THEN validate_moment(m)
    ELSE IF ~Device_can_add_operation_into_moment(operation, m) THEN Returned(FALSE)
    ELSE IF operation.gate = "CZPowGate"
        THEN Returned(~check_if_exp11_operation_interacts_with_any(operation, m))
    ELSE Returned(TRUE)

----------------------------------------------------------------------------
(* SpecOp: calls on devices of every topology within the grid *)

OpGrid == {GridQubit(r, c) : r \in 0..MaxRow, c \in 0..MaxCol}

\* the sites an operation under test may name: grid sites and one LineQubit
OpSites == OpGrid \cup {LineQubit}

OneSiteGates == {"XPowGate", "YPowGate", "PhasedXPowGate", "ZPowGate",
                 "MeasurementGate", "HPowGate"}
TwoSiteGates == {"CZPowGate", "MeasurementGate", "ISwapPowGate"}

TestOps ==
    {GateOp(g, <<p>>) : g \in OneSiteGates, p \in OpSites}
    \cup {GateOp(g, <<pq[1], pq[2]>>) : g \in TwoSiteGates,
                                pq \in {pq \in OpSites \X OpSites : pq[1] # pq[2]}}
    \cup {Op(FALSE, g, <<p>>, "") : g \in {"None", "XPowGate"}, p \in OpSites}
    \cup {Op(FALSE, g, <<pq[1], pq[2]>>, "") : g \in {"None", "CZPowGate"},
                                pq \in {pq \in OpSites \X OpSites : pq[1] # pq[2]}}

\* XmonDevice.__init__ : three durations and a set of qubits
DurationChoices ==
    { [measurement |-> 3, exp_w |-> 1, exp_z |-> 2],
      [measurement |-> 1, exp_w |-> 2, exp_z |-> 3] }

Called(n, op, q, r) == [name |-> n, op |-> op, other |-> NoOp, q |-> q, result |-> r]

NoCall == Called("none", NoOp, NoQubit, Returned(0))

\* no call is pending: the caller has consumed the last outcome
Idle == call.name = "none"

IdleMoment == moment = {} /\ guarded = TRUE
IdleScan == circuit = <<>> /\ idx = 0 /\ seen = {} /\ status = "ok"

InitOp ==
    /\ qubits \in SUBSET OpGrid
    /\ durations \in DurationChoices
    /\ call = NoCall
    /\ IdleMoment
    /\ IdleScan

CallNeighborsOf(q) ==
    /\ Idle
    /\ call' = Called("neighbors_of", NoOp, q, Returned(neighbors_of(q)))
    /\ UNCHANGED <<qubits, durations, moment, guarded, circuit, idx, seen, status>>

CallDurationOf(op) ==
    /\ Idle
    /\ call' = Called("duration_of", op, NoQubit, duration_of(op))
    /\ UNCHANGED <<qubits, durations, moment, guarded, circuit, idx, seen, status>>

CallIsSupportedGate(gate) ==
    /\ Idle
    /\ call' = Called("is_supported_gate", Op(TRUE, gate, <<>>, ""), NoQubit,
                      Returned(is_supported_gate(gate)))
    /\ UNCHANGED <<qubits, durations, moment, guarded, circuit, idx, seen, status>>

CallValidateGate(gate) ==
    /\ Idle
    /\ call' = Called("validate_gate", Op(TRUE, gate, <<>>, ""), NoQubit, validate_gate(gate))
    /\ UNCHANGED <<qubits, durations, moment, guarded, circuit, idx, seen, status>>

CallValidateOperation(op) ==
    /\ Idle
    /\ call' = Called("validate_operation", op, NoQubit, validate_operation(op))
    /\ UNCHANGED <<qubits, durations, moment, guarded, circuit, idx, seen, status>>

\* the caller takes the outcome of the call
Return ==
    /\ ~Idle
    /\ call' = NoCall
    /\ UNCHANGED <<qubits, durations, moment, guarded, circuit, idx, seen, status>>

\* duration_of reads the gate alone: one operation of each gate, on its first sites
DurationOps ==
    {GateOp(g, <<GridQubit(0, 0)>>) : g \in OneSiteGates \cup {"None"}}
    \cup {GateOp(g, <<GridQubit(0, 0), GridQubit(0, 1)>>) : g \in TwoSiteGates}

NextOp ==
    \/ Return
    \/ Idle /\ \E q \in OpGrid : CallNeighborsOf(q)
    \/ Idle /\ \E op \in DurationOps : CallDurationOf(op)
    \/ Idle /\ \E gate \in AllGates : CallIsSupportedGate(gate)
    \/ Idle /\ \E gate \in AllGates : CallValidateGate(gate)
    \/ Idle /\ \E op \in TestOps : CallValidateOperation(op)

SpecOp == InitOp /\ [][NextOp]_vars

----------------------------------------------------------------------------
(* Spec: a moment under construction on a rectangular device *)

Rect(h, w) == {GridQubit(r, c) : r \in 0..(h - 1), c \in 0..(w - 1)}

\* the (row, col) order of GridQubits
Before(p, q) == p.row < q.row \/ (p.row = q.row /\ p.col < q.col)

Pairs == {pq \in qubits \X qubits : Before(pq[1], pq[2])}

\* The operations a moment holds: the assembler validates an operation before
\* it places it, so they are those validate_operation accepts.
MomentOps ==
    {op \in {GateOp("CZPowGate", <<pq[1], pq[2]>>) : pq \in Pairs}
            \cup {GateOp(g, <<p>>) : g \in {"XPowGate", "MeasurementGate"}, p \in qubits} :
        validate_operation(op).err = ""}

\* The operations a placement is asked about: an exp11 operation on any two
\* sites, adjacent or not, and one-site operations of gates the device knows
\* and of one it does not
CanAddOps ==
    {GateOp("CZPowGate", <<pq[1], pq[2]>>) : pq \in Pairs}
    \cup {GateOp(g, <<p>>) : g \in {"XPowGate", "ZPowGate", "HPowGate"}, p \in qubits}

\* The operations the pairwise test is asked about: every gate, both orders of sites
InteractOps ==
    {GateOp(g, <<pq[1], pq[2]>>) : g \in TwoSiteGates,
                                  pq \in {pq \in qubits \X qubits : pq[1] # pq[2]}}
    \cup {GateOp(g, <<p>>) : g \in OneSiteGates, p \in qubits}

CalledOn(n, op, other, r) ==
    [name |-> n, op |-> op, other |-> other, q |-> NoQubit, result |-> r]

Init ==
    /\ qubits \in {Rect(Height, w) : w \in 2..Width}
    /\ durations = [measurement |-> 3, exp_w |-> 1, exp_z |-> 2]
    /\ call = NoCall
    /\ IdleMoment
    /\ IdleScan

\* cirq.Moment.with_operation: the host framework adds an operation to a moment
\* when it overlaps none, whatever the device would say
WithOperation(op) ==
    /\ Idle
    /\ Cardinality(moment) < MaxOps
    /\ \A o \in moment : QubitsOf(o) \cap QubitsOf(op) = {}
    /\ moment' = moment \cup {op}
    /\ guarded' = FALSE
    /\ UNCHANGED <<qubits, durations, call, circuit, idx, seen, status>>

\* the assembler asks the device and inserts the operation on True
Place(op) ==
    /\ Idle
    /\ Cardinality(moment) < MaxOps
    /\ call' = CalledOn("place", op, NoOp, can_add_operation_into_moment(op, moment))
    /\ moment' = IF can_add_operation_into_moment(op, moment) = Returned(TRUE)
                 THEN moment \cup {op}
                 ELSE moment
    /\ UNCHANGED <<qubits, durations, guarded, circuit, idx, seen, status>>

CallCanAdd(op) ==
    /\ Idle
    /\ call' = CalledOn("can_add_operation_into_moment", op, NoOp,
                        can_add_operation_into_moment(op, moment))
    /\ UNCHANGED <<qubits, durations, moment, guarded, circuit, idx, seen, status>>

CallValidateMoment ==
    /\ Idle
    /\ call' = CalledOn("validate_moment", NoOp, NoOp, validate_moment(moment))
    /\ UNCHANGED <<qubits, durations, moment, guarded, circuit, idx, seen, status>>

CallInteracts(a, b) ==
    /\ Idle
    /\ moment = {}
    /\ call' = CalledOn("interacts", a, b, Returned(check_if_exp11_operation_interacts(a, b)))
    /\ UNCHANGED <<qubits, durations, moment, guarded, circuit, idx, seen, status>>

Next ==
    \/ Return
    \/ Idle /\ \E op \in MomentOps : WithOperation(op)
    \/ Idle /\ \E op \in MomentOps : Place(op)
    \/ Idle /\ \E op \in CanAddOps : CallCanAdd(op)
    \/ CallValidateMoment
    \/ Idle /\ moment = {} /\ \E a, b \in InteractOps : CallInteracts(a, b)

Spec == Init /\ [][Next]_vars

----------------------------------------------------------------------------
(* SpecCircuit: validate_circuit, one iteration of the key scan per step *)

\* cirq.is_measurement and cirq.measurement_key of the host framework
is_measurement(op) == op.gate = "MeasurementGate"
measurement_key(op) == op.key

\* cirq.Circuit.all_operations: moment order, then operation order
RECURSIVE all_operations(_)
all_operations(c) ==
    IF c = <<>> THEN <<>> ELSE Head(c) \o all_operations(Tail(c))

\* cirq.Device.validate_circuit, the generic check of the host framework
Device_validate_circuit(c) ==
    IF \E i \in DOMAIN c :
          \E j, k \in DOMAIN c[i] : j # k /\ QubitsOf(c[i][j]) \cap QubitsOf(c[i][k]) # {}
    THEN Raised("Overlapping operations")
    ELSE Returned(0)

\* a loop body that reads the key of every operation, measurement or not
verify_unique_measurement_keys_step_any_op(op, s) ==
    IF measurement_key(op) \in s
    THEN [err |-> "Measurement key repeated", seen |-> s]
    ELSE [err |-> "", seen |-> s \cup {measurement_key(op)}]

\* one iteration of the loop of _verify_unique_measurement_keys
verify_unique_measurement_keys_step(op, s) ==
    IF is_measurement(op)
    THEN IF measurement_key(op) \in s
         THEN [err |-> "Measurement key repeated", seen |-> s]
         ELSE [err |-> "", seen |-> s \cup {measurement_key(op)}]
    ELSE [err |-> "", seen |-> s]

Keys == {"a", "b"}

\* the operations of a circuit under test, on the first two sites of the device
CircuitOps ==
    {Op(TRUE, "MeasurementGate", <<p>>, k) : k \in Keys, p \in {Q(0, 0), Q(0, 1)}}
    \cup {Op(TRUE, "MeasurementGate", <<Q(0, 0), Q(0, 1)>>, k) : k \in Keys}
    \cup {GateOp("XPowGate", <<p>>) : p \in {Q(0, 0), Q(0, 1)}}
    \cup {GateOp("CZPowGate", <<Q(0, 0), Q(0, 1)>>)}

\* cirq.Moment: a tuple of operations on disjoint qubits
CircuitMoments ==
    {<<>>} \cup {<<op>> : op \in CircuitOps}
    \cup {<<ab[1], ab[2]>> : ab \in {ab \in CircuitOps \X CircuitOps :
                                       QubitsOf(ab[1]) \cap QubitsOf(ab[2]) = {}}}

RECURSIVE CircuitsOfLength(_)
CircuitsOfLength(n) ==
    IF n = 0 THEN {<<>>}
    ELSE {Append(c, m) : c \in CircuitsOfLength(n - 1), m \in CircuitMoments}

Circuits == UNION {CircuitsOfLength(n) : n \in 0..MaxMoments}

InitCircuit ==
    /\ qubits = Rect(2, 2)
    /\ durations = [measurement |-> 3, exp_w |-> 1, exp_z |-> 2]
    /\ call = NoCall
    /\ IdleMoment
    /\ circuit \in Circuits
    /\ idx = 0
    /\ seen = {}
    /\ status = "called"

\* validate_circuit, first statement: super().validate_circuit(circuit)
GenericCheck ==
    /\ status = "called"
    /\ status' = IF Device_validate_circuit(circuit).err # ""
                 THEN Device_validate_circuit(circuit).err
                 ELSE "scanning"
    /\ UNCHANGED <<qubits, durations, moment, guarded, call, circuit, idx, seen>>

\* one iteration of `for op in operations`; on a repeated key the error names
\* the operation that carried it
ScanStep ==
    /\ status = "scanning"
    /\ idx < Len(all_operations(circuit))
    /\ LET op == all_operations(circuit)[idx + 1]
           r == verify_unique_measurement_keys_step(op, seen)
       IN  /\ seen' = r.seen
           /\ status' = IF r.err # "" THEN r.err ELSE status
           /\ idx' = IF r.err # "" THEN idx ELSE idx + 1
           /\ call' = IF r.err # ""
                      THEN CalledOn("validate_circuit", op, NoOp, Raised(r.err))
                      ELSE call
    /\ UNCHANGED <<qubits, durations, moment, guarded, circuit>>

\* the loop ends and validate_circuit returns
ScanDone ==
    /\ status = "scanning"
    /\ idx = Len(all_operations(circuit))
    /\ status' = "ok"
    /\ UNCHANGED <<qubits, durations, moment, guarded, call, circuit, idx, seen>>

NextCircuit == GenericCheck \/ ScanStep \/ ScanDone

SpecCircuit == InitCircuit /\ [][NextCircuit]_vars

----------------------------------------------------------------------------
(* The gate kinds of the design, as sets of the gate classes of the code *)

TwoQubitInteraction == {"CZPowGate"}
SingleQubitRotation == {"XPowGate", "YPowGate"}
PhaseRotationNonZero == {"PhasedXPowGate"}
PhaseRotationZero == {"ZPowGate"}
Measurement == {"MeasurementGate"}
Allowlist == TwoQubitInteraction \cup SingleQubitRotation \cup PhaseRotationNonZero
             \cup PhaseRotationZero \cup Measurement

Manhattan(p, q) == Abs(p.row - q.row) + Abs(p.col - q.col)

\* the sites of op, by position, that are no GridQubit or are not on the device
BadSites(op) ==
    {i \in DOMAIN op.qubits : ~op.qubits[i].grid \/ op.qubits[i] \notin qubits}

FirstBadSite(op) == CHOOSE i \in BadSites(op) : \A j \in BadSites(op) : i <= j

----------------------------------------------------------------------------
(* Claims checked under SpecOp *)

\* C4: validate_operation reports the first violated step only, in the order
\* (1) not a gate operation, (2) gate outside the allowlist, (3) the first site,
\* in site order, that is no GridQubit (UnsupportedQubitType) or else is not on
\* the device (QubitNotOnDevice), (4) non-local interaction.
C4_ErrorPrecedence ==
    call.name = "validate_operation" =>
        LET op == call.op
            r == call.result.err
        IN  /\ ~op.isGate => r = "Unsupported operation"
            /\ (op.isGate /\ op.gate \notin Allowlist) => r = "Unsupported gate type"
            /\ (op.isGate /\ op.gate \in Allowlist /\ BadSites(op) # {}) =>
                   r = IF ~op.qubits[FirstBadSite(op)].grid
                       THEN "Unsupported qubit type"
                       ELSE "Qubit not on device"
            /\ (op.isGate /\ op.gate \in Allowlist /\ BadSites(op) = {}) =>
                   r \in {"", "Non-local interaction"}

\* an unsupported gate on an off-device site was reported as an unsupported gate
C4_Witness ==
    /\ call.name = "validate_operation"
    /\ call.op.isGate
    /\ call.op.gate = "ISwapPowGate"
    /\ \E i \in DOMAIN call.op.qubits :
           call.op.qubits[i].grid /\ call.op.qubits[i] \notin qubits
    /\ call.result.err = "Unsupported gate type"

\* C5: with an allowlisted gate and every site on the device, a two-site
\* non-measurement operation is accepted iff its sites are adjacent (else
\* NonLocalInteraction), a two-site measurement is accepted wherever its sites
\* are, and an operation naming a site absent from the device is rejected.
C5_Locality ==
    call.name = "validate_operation" =>
        LET op == call.op
            r == call.result.err
            onDevice == op.isGate /\ op.gate \in Allowlist /\ QubitsOf(op) \subseteq qubits
        IN  /\ (onDevice /\ Len(op.qubits) = 2 /\ op.gate \notin Measurement) =>
                   /\ r = "" <=> Manhattan(op.qubits[1], op.qubits[2]) = 1
                   /\ r \in {"", "Non-local interaction"}
            /\ (onDevice /\ Len(op.qubits) = 2 /\ op.gate \in Measurement) => r = ""
            /\ ~(QubitsOf(op) \subseteq qubits) => r # ""

\* a measurement of two on-device sites that are not adjacent was accepted
C5_Witness ==
    /\ call.name = "validate_operation"
    /\ call.op.isGate /\ call.op.gate = "MeasurementGate"
    /\ Len(call.op.qubits) = 2
    /\ QubitsOf(call.op) \subseteq qubits
    /\ Manhattan(call.op.qubits[1], call.op.qubits[2]) # 1
    /\ call.result.err = ""

\* C7: duration_of returns the two-qubit duration for TwoQubitInteraction, the
\* measurement duration for Measurement, the single-qubit duration for
\* SingleQubitRotation and non-zero PhaseRotation, zero for the zero-duration
\* PhaseRotation; it raises UnsupportedGate exactly where is_supported_gate is
\* false, and validate_gate raises exactly there too.
C7_Durations ==
    /\ call.name = "duration_of" =>
          LET g == call.op.gate
              r == call.result
          IN  /\ g \in TwoQubitInteraction => r = Returned(durations.exp_z)
              /\ g \in Measurement => r = Returned(durations.measurement)
              /\ g \in SingleQubitRotation \cup PhaseRotationNonZero =>
                     r = Returned(durations.exp_w)
              /\ g \in PhaseRotationZero => r = Returned(0)
              /\ r.err = "" <=> is_supported_gate(g)
              /\ r.err \in {"", "Unsupported gate type"}
    /\ call.name = "validate_gate" =>
          /\ call.result.err # "" <=> ~is_supported_gate(call.op.gate)
          /\ call.result.err \in {"", "Unsupported gate type"}
    /\ call.name = "is_supported_gate" =>
          (call.result.val <=> call.op.gate \in Allowlist)

\* duration_of was asked about the zero-duration phase rotation and returned zero
C7_Witness ==
    /\ call.name = "duration_of"
    /\ call.op.gate = "ZPowGate"
    /\ call.result = Returned(0)
    /\ durations.exp_w # 0

\* the place of p among the candidates of q: north, south, east, west
Rank(p, q) ==
    CASE p.row = q.row + 1 /\ p.col = q.col -> 1
      [] p.row = q.row - 1 /\ p.col = q.col -> 2
      [] p.row = q.row /\ p.col = q.col + 1 -> 3
      [] p.row = q.row /\ p.col = q.col - 1 -> 4
      [] OTHER -> 0

----------------------------------------------------------------------------
(* Claims checked under Spec *)

\* two operations are TwoQubitInteractions and a site of one is adjacent to a
\* site of the other
Conflict(a, b) ==
    /\ a.gate \in TwoQubitInteraction
    /\ b.gate \in TwoQubitInteraction
    /\ \E p \in QubitsOf(a), q \in QubitsOf(b) : Manhattan(p, q) = 1

\* the interaction-exclusion invariant of a moment
ExclusionHolds(m) == \A a, b \in m : a # b => ~Conflict(a, b)

\* the no-overlap invariant of a moment
NoSharedSite(m) == \A a, b \in m : a # b => QubitsOf(a) \cap QubitsOf(b) = {}

NeverConflicts(op) ==
    op.gate \in SingleQubitRotation \cup PhaseRotationNonZero \cup PhaseRotationZero
                \cup Measurement

\* C1 as stated: can_add_operation_into_moment returns a boolean and never
\* raises, whatever the moment contains.
C1_NeverRaises ==
    call.name = "can_add_operation_into_moment" => call.result.err = ""

\* C1 as amended: can_add_operation_into_moment returns a boolean without
\* raising when validate_moment accepts the moment, and raises the error of
\* validate_moment when validate_moment rejects the moment.
C1_RaisesWhatValidateMomentRaises ==
    call.name = "can_add_operation_into_moment" =>
        /\ call.result.err = validate_moment(moment).err
        /\ call.result.err = "" => call.result.val \in BOOLEAN
        /\ ~ExclusionHolds(moment) => call.result.err = "Adjacent Exp11 operations"

\* the placement decision was asked about a moment holding two adjacent
\* interactions, and raised
C1_Witness ==
    /\ call.name = "can_add_operation_into_moment"
    /\ ~ExclusionHolds(moment)
    /\ call.result.err = "Adjacent Exp11 operations"

C10_PlacementSound ==
    /\ (call.name = "place" /\ call.result.err = "" /\ call.result.val) =>
           /\ call.op \in moment
           /\ validate_moment(moment).err = ""
    /\ guarded => (NoSharedSite(moment) /\ ExclusionHolds(moment))

\* a second interaction was placed beside a first after a True answer
C10_Witness ==
    /\ call.name = "place" /\ call.result.err = "" /\ call.result.val
    /\ guarded
    /\ Cardinality({o \in moment : o.gate = "CZPowGate"}) = 2

----------------------------------------------------------------------------
(* Claims checked under SpecCircuit *)

\* the places of the operations of a circuit: <<moment, position in the moment>>
Places(c) == UNION {{<<i, j>> : j \in DOMAIN c[i]} : i \in DOMAIN c}

OpAt(c, ij) == c[ij[1]][ij[2]]

\* moment order, then operation order
Earlier(ij, kl) == ij[1] < kl[1] \/ (ij[1] = kl[1] /\ ij[2] < kl[2])

IsMeasurementOp(op) == op.gate \in Measurement

\* the places whose operation carries a key that an earlier measurement carries
Repeats(c) ==
    {kl \in Places(c) :
        /\ IsMeasurementOp(OpAt(c, kl))
        /\ \E ij \in Places(c) :
              /\ Earlier(ij, kl)
              /\ IsMeasurementOp(OpAt(c, ij))
              /\ OpAt(c, ij).key = OpAt(c, kl).key}

FirstRepeat(c) == CHOOSE kl \in Repeats(c) : \A ij \in Repeats(c) : ij = kl \/ Earlier(kl, ij)

\* the places before position n of the scan
Scanned(c, n) ==
    {kl \in Places(c) : Cardinality({ij \in Places(c) : Earlier(ij, kl)}) < n}

\* C6: validate_circuit raises DuplicateMeasurementKey iff two measurements of
\* the circuit, in one moment or in two, carry the same key, and accepts
\* otherwise; the scan goes by moment and then by operation, `seen` holds
\* exactly the keys of the measurements scanned so far, and the key reported is
\* the first, in that order, that was seen before.
C6_UniqueKeys ==
    /\ status \in {"scanning", "ok", "Measurement key repeated"} =>
          seen = {OpAt(circuit, kl).key :
                     kl \in {ij \in Scanned(circuit, idx) : IsMeasurementOp(OpAt(circuit, ij))}}
    /\ status = "ok" => Repeats(circuit) = {}
    /\ status = "Measurement key repeated" =>
          /\ Repeats(circuit) # {}
          /\ call.op = OpAt(circuit, FirstRepeat(circuit))
          /\ Scanned(circuit, idx + 1) \ Scanned(circuit, idx) = {FirstRepeat(circuit)}
    /\ status \in {"called", "scanning", "ok", "Measurement key repeated"}

\* the scan went past a measurement and a later moment's operation and raised
\* on a key that a measurement of an earlier moment carried
C6_Witness ==
    /\ status = "Measurement key repeated"
    /\ idx >= 2
    /\ FirstRepeat(circuit)[1] = 2
    /\ \E ij \in Places(circuit) :
          ij[1] = 1 /\ OpAt(circuit, ij).key = call.op.key /\ IsMeasurementOp(OpAt(circuit, ij))

====
